---- MODULE Spec2Model ----
(***************************************************************************)
(* A model of the sendgrid-mcp server (src/main.ts): the constructor's     *)
(* start-up checks, the CallTool dispatcher and handleSendEmail with its   *)
(* suspension at sgMail.send.                                              *)
(*                                                                         *)
(* JavaScript values are tagged records; a JavaScript string is the        *)
(* sequence of its pieces (characters for addresses, words and tags for    *)
(* bodies and messages), so that concatenation is \o and "contains" is a   *)
(* contiguous subsequence.                                                 *)
(***************************************************************************)
EXTENDS Integers, Sequences, FiniteSets, TLC

VARIABLES
    env,           \* the process environment read by the constructor
    pc,            \* "start", "constructed", "running" or "exited"
    exitCode,      \* the status given to Deno.exit, -1 while the process lives
    testMode,      \* options?.testMode as given to the constructor
    apiKey,        \* this.apiKey
    fromEmail,     \* this.fromEmail
    toolHandlers,  \* the keys of this.toolHandlers
    sgApiKey,      \* the key sgMail holds after setApiKey
    calls          \* the tool calls, one record per request slot

vars == <<env, pc, exitCode, testMode, apiKey, fromEmail, toolHandlers, sgApiKey, calls>>

-----------------------------------------------------------------------------
(* Bounds *)

\* the number of tool calls the transport has in flight at once
MaxInFlight == 1

Calls == 1 .. MaxInFlight

-----------------------------------------------------------------------------
(* JavaScript values *)

Undefined == [t |-> "undefined"]
Null == [t |-> "null"]
Str(s) == [t |-> "string", s |-> s]
Num(n) == [t |-> "number", n |-> n]
Arr(items) == [t |-> "array", items |-> items]
Obj(f) == [t |-> "object", cls |-> "Object", o |-> f]
\* new Error(message) with further own properties props
ErrorObj(message, props) ==
    [t |-> "object", cls |-> "Error",
     o |-> [k \in DOMAIN props \cup {"message"} |->
              IF k = "message" THEN Str(message) ELSE props[k]]]

\* the object with no own property
NoProps == [k \in {} |-> Undefined]

\* the model's mark for a key that an object literal leaves out
Absent == [t |-> "absent"]
Prune(f) == [k \in {j \in DOMAIN f : f[j].t # "absent"} |-> f[k]]

\* typeof v
TypeOf(v) == IF v.t \in {"object", "array", "null"} THEN "object" ELSE v.t

\* k in v, for an object v
Has(v, k) == v.t = "object" /\ k \in DOMAIN v.o

\* v[k], undefined for a key v lacks
Get(v, k) == IF Has(v, k) THEN v.o[k] ELSE Undefined

\* the condition of if (v), v || w, v ? a : b
Truthy(v) ==
    CASE v.t = "string" -> v.s # <<>>
      [] v.t = "number" -> v.n # 0
      [] v.t \in {"undefined", "null"} -> FALSE
      [] OTHER -> TRUE

\* `${v}` in a template literal
Interpolate(v) ==
    CASE v.t = "string" -> v.s
      [] v.t = "number" -> <<ToString(v.n)>>
      [] v.t = "undefined" -> <<"undefined">>
      [] v.t = "null" -> <<"null">>
      [] v.t = "array" -> <<>>
      [] OTHER -> <<"[object Object]">>

RECURSIVE Join(_, _)
\* parts.join(sep), the parts and the separator being strings
Join(parts, sep) ==
    IF parts = <<>> THEN <<>>
    ELSE IF Len(parts) = 1 THEN Head(parts)
    ELSE Head(parts) \o sep \o Join(Tail(parts), sep)

\* s occurs in text as a contiguous run
Contains(text, s) ==
    \E i \in 0 .. (Len(text) - Len(s)) : SubSeq(text, i + 1, i + Len(s)) = s

-----------------------------------------------------------------------------
(* EmailSchema: zod 3 object (unknown keys stripped), string checks, refine *)

Letters == {"a", "b", "c"}
Alnum == Letters \cup {"0"}
LocalChars == Alnum \cup {"_", "'", "+", "-", "."}
LocalEndChars == Alnum \cup {"_", "+", "-"}

\* zod's emailRegex:
\* ^(?!\.)(?!.*\.\.)([A-Z0-9_'+\-\.]*)[A-Z0-9_+-]@([A-Z0-9][A-Z0-9\-]*\.)+[A-Z]{2,}$
DomainOk(d) ==
    \E k \in 1 .. Len(d) :
        /\ d[k] = "."
        /\ Len(d) - k >= 2
        /\ \A j \in (k + 1) .. Len(d) : d[j] \in Letters
        /\ d[1] \in Alnum
        /\ \A j \in 1 .. k :
              /\ d[j] \in Alnum \cup {"-", "."}
              /\ d[j] \in {"-", "."} => (j > 1 /\ d[j - 1] # ".")

IsEmail(s) ==
    /\ s # <<>>
    /\ s[1] # "."
    /\ \A j \in 1 .. (Len(s) - 1) : ~(s[j] = "." /\ s[j + 1] = ".")
    /\ \E i \in 1 .. Len(s) :
          /\ s[i] = "@"
          /\ i >= 2
          /\ \A j \in 1 .. (i - 1) : s[j] \in LocalChars
          /\ s[i - 1] \in LocalEndChars
          /\ DomainOk(SubSeq(s, i + 1, Len(s)))

Issue(path, message) == [path |-> path, message |-> message]

\* zod's default message of an invalid_type issue
InvalidTypeMessage(expected, v) ==
    IF v.t = "undefined" THEN <<"Required">>
    ELSE <<"Expected ", expected, ", received ", v.t>>

\* a parse result: "valid", "dirty" (issues, parsing went on) or "aborted"
ParseResult(status, value, issues) ==
    [status |-> status, value |-> value, issues |-> issues]

\* to: z.string().email("Invalid recipient email address")
ParseTo(v) ==
    IF v.t # "string"
    THEN ParseResult("aborted", Undefined,
                     <<Issue(<<"to">>, InvalidTypeMessage("string", v))>>)
    ELSE IF ~IsEmail(v.s)
    THEN ParseResult("dirty", v,
                     <<Issue(<<"to">>, <<"Invalid recipient email address">>)>>)
    ELSE ParseResult("valid", v, <<>>)

\* subject: z.string().min(1, "Subject cannot be empty")
ParseSubject(v) ==
    IF v.t # "string"
    THEN ParseResult("aborted", Undefined,
                     <<Issue(<<"subject">>, InvalidTypeMessage("string", v))>>)
    ELSE IF Len(v.s) < 1
    THEN ParseResult("dirty", v,
                     <<Issue(<<"subject">>, <<"Subject cannot be empty">>)>>)
    ELSE ParseResult("valid", v, <<>>)

\* text, html: z.string().optional()
ParseOptionalString(key, v) ==
    IF v.t = "undefined" THEN ParseResult("valid", Undefined, <<>>)
    ELSE IF v.t # "string"
    THEN ParseResult("aborted", Undefined,
                     <<Issue(<<key>>, InvalidTypeMessage("string", v))>>)
    ELSE ParseResult("valid", v, <<>>)

ShapeKeys == <<"to", "subject", "text", "html">>

ParseKey(key, v) ==
    CASE key = "to" -> ParseTo(v)
      [] key = "subject" -> ParseSubject(v)
      [] OTHER -> ParseOptionalString(key, v)

\* the keys the parsed object keeps: those of the shape, whose parsed value is
\* defined or whose key the input has (unknownKeys: "strip")
KeptKeys(input) == {k \in {"to", "subject", "text", "html"} : Has(input, k)}

\* z.object({to, subject, text, html}): every key of the shape is parsed, in
\* the shape's order; one aborted key aborts the object
ParseObject(input) ==
    IF input.t # "object"
    THEN ParseResult("aborted", Undefined,
                     <<Issue(<<>>, InvalidTypeMessage("object", input))>>)
    ELSE LET r == [i \in 1 .. Len(ShapeKeys) |->
                      ParseKey(ShapeKeys[i], Get(input, ShapeKeys[i]))]
             issues == r[1].issues \o r[2].issues \o r[3].issues \o r[4].issues
             status == IF \E i \in 1 .. 4 : r[i].status = "aborted" THEN "aborted"
                       ELSE IF \E i \in 1 .. 4 : r[i].status = "dirty" THEN "dirty"
                       ELSE "valid"
             value == Obj([k \in KeptKeys(input) |-> Get(input, k)])
         IN  ParseResult(status, IF status = "aborted" THEN Undefined ELSE value,
                         issues)

\* (data) => data.text || data.html
ContentPresent(data) == Truthy(Get(data, "text")) \/ Truthy(Get(data, "html"))

\* EmailSchema.parse(input): the refinement runs unless the object aborted;
\* ok with the parsed data, or the issues a ZodError carries
EmailSchemaParse(input) ==
    LET inner == ParseObject(input)
        issues == IF inner.status = "aborted" THEN inner.issues
                  ELSE IF ContentPresent(inner.value) THEN inner.issues
                  ELSE inner.issues \o
                       <<Issue(<<"content">>,
                               <<"Either text or html content must be provided">>)>>
    IN  [ok |-> issues = <<>>, data |-> inner.value, issues |-> issues]

-----------------------------------------------------------------------------
(* sanitizeHtml: DOMPurify.sanitize on a string of tags and text *)

DroppedElements == {"script", "iframe"}
OpenTag(e) == "<" \o e \o ">"
CloseTag(e) == "</" \o e \o ">"

RECURSIVE Purify(_, _)
\* inside is the dropped element being skipped, "" outside of one
Purify(s, inside) ==
    IF s = <<>> THEN <<>>
    ELSE IF inside # ""
    THEN Purify(Tail(s), IF Head(s) = CloseTag(inside) THEN "" ELSE inside)
    ELSE IF \E e \in DroppedElements : Head(s) = OpenTag(e)
    THEN Purify(Tail(s), CHOOSE e \in DroppedElements : Head(s) = OpenTag(e))
    ELSE <<Head(s)>> \o Purify(Tail(s), "")

\* a sanitizer that strips the dropped elements' tags and keeps what is between them
sanitizeHtmlTagsOnly(html) ==
    SelectSeq(html, LAMBDA piece :
        \A e \in DroppedElements : piece # OpenTag(e) /\ piece # CloseTag(e))

sanitizeHtml(html) == Purify(html, "")

-----------------------------------------------------------------------------
(* What a function call yields: a value, or an exception *)

Return(v) == [t |-> "return", value |-> v]
Throw(e) == [t |-> "throw", error |-> e]

\* a ZodError with its issues
ZodError(issues) == [t |-> "object", cls |-> "ZodError", errors |-> issues, o |-> NoProps]

\* the tool responses handleSendEmail returns
ToolResponse(text) == [content |-> <<[type |-> "text", text |-> text]>>]
ToolErrorResponse(text) ==
    [content |-> <<[type |-> "text", text |-> text]>>, isError |-> TRUE]

-----------------------------------------------------------------------------
(* sendEmail *)

\* the message with the sender taken from the request data
sendEmailMsgCallerFrom(self, emailData) ==
    Obj(Prune([to |-> Get(emailData, "to"),
               from |-> Get(emailData, "from"),
               subject |-> Get(emailData, "subject"),
               text |-> IF Truthy(Get(emailData, "text"))
                        THEN Get(emailData, "text") ELSE Absent,
               html |-> IF Truthy(Get(emailData, "html"))
                        THEN Get(emailData, "html") ELSE Absent]))

\* sendEmail up to its call of sgMail.send: the message it hands over
sendEmailMsg(self, emailData) ==
    Obj(Prune([to |-> Get(emailData, "to"),
               from |-> Str(self.fromEmail),
               subject |-> Get(emailData, "subject"),
               text |-> IF Truthy(Get(emailData, "text"))
                        THEN Get(emailData, "text") ELSE Absent,
               html |-> IF Truthy(Get(emailData, "html"))
                        THEN Get(emailData, "html") ELSE Absent]))

\* reading a property of undefined or null
TypeErrorObj == ErrorObj(<<"Cannot read properties of undefined">>, NoProps)

\* the receipt with the header read as it is, without `|| 'unknown'`
sendEmailReceiptNoDefault(outcome) ==
    IF outcome.kind = "reject" THEN Throw(outcome.error)
    ELSE LET response == outcome.response
             headers == Get(response, "headers")
         IN  IF response.t # "object" \/ headers.t # "object"
             THEN Throw(TypeErrorObj)
             ELSE Return([statusCode |-> Get(response, "statusCode"),
                          messageId |-> Get(headers, "x-message-id")])

\* sendEmail from the settling of sgMail.send on: the receipt, or the exception
sendEmailReceipt(outcome) ==
    IF outcome.kind = "reject" THEN Throw(outcome.error)
    ELSE LET response == outcome.response
             headers == Get(response, "headers")
             id == Get(headers, "x-message-id")
         IN  IF response.t # "object" \/ headers.t # "object"
             THEN Throw(TypeErrorObj)
             ELSE Return([statusCode |-> Get(response, "statusCode"),
                          messageId |-> IF Truthy(id) THEN id ELSE Str(<<"unknown">>)])

-----------------------------------------------------------------------------
(* handleSendEmail *)

\* the html of sanitizedData
SanitizedHtml(emailData) ==
    IF Truthy(Get(emailData, "html"))
    THEN Str(sanitizeHtml(Get(emailData, "html").s))
    ELSE Undefined

\* the sanitizer applied to both bodies
SanitizedDataBothBodies(emailData) ==
    Obj([k \in DOMAIN emailData.o \cup {"html"} |->
           IF k = "html" THEN SanitizedHtml(emailData)
           ELSE IF k = "text" /\ Truthy(emailData.o[k])
           THEN Str(sanitizeHtml(emailData.o[k].s))
           ELSE emailData.o[k]])

\* { ...emailData, html: emailData.html ? this.sanitizeHtml(emailData.html) : undefined }
SanitizedData(emailData) ==
    Obj([k \in DOMAIN emailData.o \cup {"html"} |->
           IF k = "html" THEN SanitizedHtml(emailData) ELSE emailData.o[k]])

\* the success text with the two values exchanged
SuccessTextSwapped(receipt) ==
    <<"Email sent successfully! Status: ">> \o Interpolate(receipt.messageId)
        \o <<", Message ID: ">> \o Interpolate(receipt.statusCode)

SuccessText(receipt) ==
    <<"Email sent successfully! Status: ">> \o Interpolate(receipt.statusCode)
        \o <<", Message ID: ">> \o Interpolate(receipt.messageId)

\* error.errors.map(err => `${err.path.join('.')}: ${err.message}`).join(', ')
ValidationText(issues) ==
    <<"Validation error: ">> \o
    Join([i \in 1 .. Len(issues) |->
            Join([j \in 1 .. Len(issues[i].path) |-> <<issues[i].path[j]>>], <<".">>)
                \o <<": ">> \o issues[i].message],
         <<", ">>)

\* the defensive if without `'message' in errorBody.errors[0]`
ParseErrorBodyNoMessageCheck(errorBody) ==
    IF ~Truthy(errorBody) \/ TypeOf(errorBody) # "object" THEN Return(<<>>)
    ELSE IF ~Has(errorBody, "errors") THEN Return(<<>>)
    ELSE LET errors == Get(errorBody, "errors")
         IN  IF errors.t # "array" \/ Len(errors.items) = 0 THEN Return(<<>>)
             ELSE LET first == errors.items[1]
                  IN  IF TypeOf(first) # "object" THEN Return(<<>>)
                      ELSE IF first.t = "null" THEN Throw(TypeErrorObj)
                      ELSE Return(<<": ">> \o Interpolate(Get(first, "message")))

\* the condition of the defensive if, evaluated left to right; `in` on null throws
ParseErrorBody(errorBody) ==
    IF ~Truthy(errorBody) \/ TypeOf(errorBody) # "object" THEN Return(<<>>)
    ELSE IF ~Has(errorBody, "errors") THEN Return(<<>>)
    ELSE LET errors == Get(errorBody, "errors")
         IN  IF errors.t # "array" \/ Len(errors.items) = 0 THEN Return(<<>>)
             ELSE LET first == errors.items[1]
                  IN  IF TypeOf(first) # "object" THEN Return(<<>>)
                      ELSE IF first.t = "null" THEN Throw(TypeErrorObj)
                      ELSE IF ~Has(first, "message") THEN Return(<<>>)
                      ELSE Return(<<": ">> \o Interpolate(Get(first, "message")))

\* the parsing without the try around it
ErrorBodySuffixNoTry(errorBody) == ParseErrorBody(errorBody)

\* try { ... } catch (parseError) { }: what is appended to errorMessage
ErrorBodySuffix(errorBody) ==
    LET r == ParseErrorBody(errorBody)
    IN  IF r.t = "throw" THEN Return(<<>>) ELSE r

\* the status read from the error itself
ErrorStatusOfError(error) ==
    LET status == Get(error, "status")
    IN  IF Truthy(status) THEN status ELSE Str(<<"unknown">>)

\* sendGridError.response?.status || 'unknown'
ErrorStatus(error) ==
    LET status == Get(Get(error, "response"), "status")
    IN  IF Truthy(status) THEN status ELSE Str(<<"unknown">>)

\* the branch for an error that carries `response`
SendGridErrorResponse(error) ==
    LET suffix == ErrorBodySuffix(Get(Get(error, "response"), "body"))
    IN  IF suffix.t = "throw" THEN suffix
        ELSE Return(ToolErrorResponse(
                 <<"SendGrid API error (status: ">> \o Interpolate(ErrorStatus(error))
                     \o <<")">> \o suffix.value))

\* the generic text with the configuration appended for debugging
GenericErrorTextWithKey(self, error) ==
    <<"Failed to send email: ">> \o
    (IF error.t = "object" /\ error.cls \in {"Error", "ZodError"}
     THEN Interpolate(Get(error, "message"))
     ELSE <<"Unknown error">>) \o <<" (key: ">> \o self.apiKey \o <<")">>

\* `Failed to send email: ${error instanceof Error ? error.message : 'Unknown error'}`
GenericErrorText(self, error) ==
    <<"Failed to send email: ">> \o
    (IF error.t = "object" /\ error.cls \in {"Error", "ZodError"}
     THEN Interpolate(Get(error, "message"))
     ELSE <<"Unknown error">>)

\* the catch block without its ZodError branch
CatchBlockNoZodBranch(self, error) ==
    IF Truthy(error) /\ TypeOf(error) = "object" /\ Has(error, "response")
    THEN SendGridErrorResponse(error)
    ELSE Return(ToolErrorResponse(GenericErrorText(self, error)))

\* the catch block of handleSendEmail
CatchBlock(self, error) ==
    IF error.t = "object" /\ error.cls = "ZodError"
    THEN Return(ToolErrorResponse(ValidationText(error.errors)))
    ELSE IF Truthy(error) /\ TypeOf(error) = "object" /\ Has(error, "response")
    THEN SendGridErrorResponse(error)
    ELSE Return(ToolErrorResponse(GenericErrorText(self, error)))

\* handleSendEmail up to `await this.sendEmail(...)`: the message handed to
\* sgMail.send, or what the handler yields without sending
handleSendEmailStart(self, request) ==
    LET parsed == EmailSchemaParse(request.params.arguments)
    IN  IF ~parsed.ok
        THEN [sent |-> FALSE, msg |-> Undefined,
              result |-> CatchBlock(self, ZodError(parsed.issues))]
        ELSE [sent |-> TRUE,
              msg |-> sendEmailMsg(self, SanitizedData(parsed.data)),
              result |-> Undefined]

\* handleSendEmail from the settling of sgMail.send on
handleSendEmailResume(self, outcome) ==
    LET r == sendEmailReceipt(outcome)
    IN  IF r.t = "throw" THEN CatchBlock(self, r.error)
        ELSE Return(ToolResponse(SuccessText(r.value)))

-----------------------------------------------------------------------------
(* The inputs: environments, tool-call arguments, outcomes of sgMail.send *)

ApiKeyValue == <<"SG.", "key-1">>
SenderValue == <<"s", "@", "b", ".", "c", "c">>

\* both set; the key missing; the sender missing; the sender empty; both missing
EnvValues ==
    {[SENDGRID_API_KEY |-> Str(ApiKeyValue), SENDGRID_FROM_EMAIL |-> Str(SenderValue)],
     [SENDGRID_API_KEY |-> Undefined, SENDGRID_FROM_EMAIL |-> Str(SenderValue)],
     [SENDGRID_API_KEY |-> Str(ApiKeyValue), SENDGRID_FROM_EMAIL |-> Undefined],
     [SENDGRID_API_KEY |-> Str(ApiKeyValue), SENDGRID_FROM_EMAIL |-> Str(<<>>)],
     [SENDGRID_API_KEY |-> Undefined, SENDGRID_FROM_EMAIL |-> Undefined]}

ValidTo == <<"a", "@", "b", ".", "c", "c">>
SpoofedFrom == <<"c", "@", "a", ".", "c", "c">>
PlainText == <<"<script>", "x", "</script>", "hello">>
ScriptOnlyHtml == <<"<script>", "alert(1)", "</script>">>
MixedHtml == <<"<p>", "Hello", "</p>", "<script>", "alert(1)", "</script>", "<p>", "World", "</p>">>

ToValues == {Absent, Str(<<"a", "b">>), Str(<<"a", "@", "b", ".", "c">>), Str(ValidTo)}
SubjectValues == {Absent, Str(<<>>), Str(<<"Hi">>)}
TextValues == {Absent, Str(<<>>), Str(PlainText)}
HtmlValues == {Absent, Str(<<>>), Str(ScriptOnlyHtml), Str(MixedHtml)}

\* request.params.arguments: missing; an object of the four fields, with
\* every combination of recipient, subject and content presence, and with
\* every combination of bodies under a valid recipient and subject; one with
\* a field that is no string; one that also names a sender
ArgValues ==
    {Undefined}
    \cup {Obj(Prune([to |-> a, subject |-> b, text |-> c[1], html |-> c[2]])) :
            a \in ToValues, b \in SubjectValues,
            c \in {<<Absent, Absent>>, <<Str(PlainText), Absent>>, <<Absent, Str(MixedHtml)>>}}
    \cup {Obj(Prune([to |-> Str(ValidTo), subject |-> Str(<<"Hi">>), text |-> c, html |-> d])) :
            c \in TextValues, d \in HtmlValues}
    \cup {Obj(Prune([to |-> a, subject |-> Str(<<"Hi">>), text |-> c, html |-> Absent])) :
            a \in {Num(5), Str(ValidTo)}, c \in {Num(7), Absent}}
    \cup {Obj(Prune([to |-> a, subject |-> Str(<<"Hi">>), text |-> Str(PlainText),
                     html |-> Str(MixedHtml), from |-> Str(SpoofedFrom)])) :
            a \in {Absent, Str(ValidTo)}}

\* the requests the transport delivers: send_email with any arguments, and a
\* tool the server does not have
RequestValues ==
    {[name |-> "send_email", arguments |-> a] : a \in ArgValues}
    \cup {[name |-> "list_emails", arguments |-> a] :
            a \in {Undefined, Obj([to |-> Str(ValidTo), subject |-> Str(<<"Hi">>),
                                   text |-> Str(PlainText)])}}

Resolve(response) == [kind |-> "resolve", response |-> response]
Reject(error) == [kind |-> "reject", error |-> error]

MessageBody(m) == Obj([errors |-> Arr(<<Obj([message |-> m])>>)])

\* the bodies of a provider error response, well-formed and not
BodyValues ==
    {Undefined, Null, Str(<<"Bad Request">>),
     Obj(NoProps),
     Obj([errors |-> Str(<<"oops">>)]),
     Obj([errors |-> Arr(<<>>)]),
     Obj([errors |-> Arr(<<Null>>)]),
     Obj([errors |-> Arr(<<Str(<<"oops">>)>>)]),
     Obj([errors |-> Arr(<<Obj(NoProps)>>)]),
     MessageBody(Str(<<"Invalid recipient">>)),
     MessageBody(Undefined)}

\* error.response: with a status and each body, without a status, with
\* another status, and not an object at all
ResponseValues ==
    {Obj([status |-> Num(400), body |-> b]) : b \in BodyValues}
    \cup {Obj([body |-> b]) : b \in {Undefined, MessageBody(Str(<<"Invalid recipient">>))}}
    \cup {Obj([status |-> Num(500), body |-> MessageBody(Str(<<"Server error">>))]),
          Undefined, Null}

OutcomeValues ==
    {Resolve(Obj([statusCode |-> Num(202),
                  headers |-> Obj([k \in {"x-message-id"} |-> Str(<<"test-message-id-123">>)])])),
     Resolve(Obj([statusCode |-> Num(200), headers |-> Obj(NoProps)])),
     Resolve(Obj([statusCode |-> Num(202)]))}
    \cup {Reject(ErrorObj(<<"SendGrid API Error">>, [response |-> r])) : r \in ResponseValues}
    \cup {Reject(ErrorObj(<<"Network timeout">>, NoProps)),
          Reject(Str(<<"thrown string">>))}

-----------------------------------------------------------------------------
(* The state machine *)

IdleCall ==
    [phase |-> "idle", name |-> "", args |-> Undefined, sends |-> 0,
     msg |-> Undefined, outcome |-> Undefined, result |-> Undefined]

\* `this`, as handleSendEmail and sendEmail read it
Self == [apiKey |-> apiKey, fromEmail |-> fromEmail]

\* Deno.env.get(name) || ""
EnvGet(name) == IF Truthy(env[name]) THEN env[name].s ELSE <<>>

Init ==
    /\ env \in EnvValues
    /\ pc = "start"
    /\ exitCode = -1
    /\ testMode = FALSE
    /\ apiKey = <<>>
    /\ fromEmail = <<>>
    /\ toolHandlers = {}
    /\ sgApiKey = <<>>
    /\ calls = [c \in Calls |-> IdleCall]

\* the constructor with the key's check only
ConstructorExitsOnKeyOnly(mode, key, sender) == key = <<>> /\ ~mode

\* where the constructor stops: Deno.exit(1) at the first failed check, or its end
ConstructorExits(mode, key, sender) ==
    (key = <<>> /\ ~mode) \/ (sender = <<>> /\ ~mode)

\* new SendGridMCPServer(options)
Construct(mode) ==
    /\ pc = "start"
    /\ testMode' = mode
    /\ apiKey' = EnvGet("SENDGRID_API_KEY")
    /\ IF ConstructorExits(mode, apiKey', EnvGet("SENDGRID_FROM_EMAIL"))
       THEN /\ pc' = "exited"
            /\ exitCode' = 1
            /\ fromEmail' = IF apiKey' = <<>> THEN fromEmail
                            ELSE EnvGet("SENDGRID_FROM_EMAIL")
            /\ UNCHANGED <<toolHandlers, sgApiKey>>
       ELSE /\ pc' = "constructed"
            /\ fromEmail' = EnvGet("SENDGRID_FROM_EMAIL")
            /\ sgApiKey' = IF apiKey' # <<>> THEN apiKey' ELSE sgApiKey
            /\ toolHandlers' = toolHandlers \cup {"send_email"}
            /\ UNCHANGED exitCode
    /\ UNCHANGED <<env, calls>>

\* server.run(): the transport is connected and requests arrive from now on
Run ==
    /\ pc = "constructed"
    /\ pc' = "running"
    /\ UNCHANGED <<env, exitCode, testMode, apiKey, fromEmail, toolHandlers, sgApiKey, calls>>

Request(name, args) == [params |-> [name |-> name, arguments |-> args]]

\* the CallToolRequestSchema handler up to the first suspension: an unknown
\* tool throws; send_email runs handleSendEmail, which returns at once on a
\* validation failure and otherwise hands the message to sgMail.send
CallTool(c, name, args) ==
    /\ pc = "running"
    /\ calls[c].phase = "idle"
    /\ LET request == Request(name, args)
           started == handleSendEmailStart(Self, request)
       IN  calls' = [calls EXCEPT ![c] =
             IF name \notin toolHandlers
             THEN [IdleCall EXCEPT !.phase = "done", !.name = name, !.args = args,
                      !.result = Throw(ErrorObj(<<"Unknown tool: ", name>>, NoProps))]
             ELSE IF started.sent
             THEN [IdleCall EXCEPT !.phase = "awaiting", !.name = name, !.args = args,
                      !.sends = 1, !.msg = started.msg]
             ELSE [IdleCall EXCEPT !.phase = "done", !.name = name, !.args = args,
                      !.result = started.result]]
    /\ UNCHANGED <<env, pc, exitCode, testMode, apiKey, fromEmail, toolHandlers, sgApiKey>>

\* the handler answering from a receipt or error kept in a field of the
\* server, which another call that settled earlier has filled
SendSettlesCached(c, outcome) ==
    /\ pc = "running"
    /\ calls[c].phase = "awaiting"
    /\ LET earlier == {d \in DOMAIN calls :
                          d # c /\ calls[d].phase = "done" /\ calls[d].sends > 0}
           used == IF earlier = {} THEN outcome
                   ELSE calls[CHOOSE d \in earlier : TRUE].outcome
       IN  calls' = [calls EXCEPT ![c].phase = "done", ![c].outcome = outcome,
                                  ![c].result = handleSendEmailResume(Self, used)]
    /\ UNCHANGED <<env, pc, exitCode, testMode, apiKey, fromEmail, toolHandlers, sgApiKey>>

\* the handler sending the message a second time when the first send fails
SendSettlesRetry(c, outcome) ==
    /\ pc = "running"
    /\ calls[c].phase = "awaiting"
    /\ calls' = IF outcome.kind = "reject" /\ calls[c].sends < 2
                THEN [calls EXCEPT ![c].sends = calls[c].sends + 1]
                ELSE [calls EXCEPT ![c].phase = "done", ![c].outcome = outcome,
                                   ![c].result = handleSendEmailResume(Self, outcome)]
    /\ UNCHANGED <<env, pc, exitCode, testMode, apiKey, fromEmail, toolHandlers, sgApiKey>>

\* sgMail.send settles and handleSendEmail runs to its return
SendSettles(c, outcome) ==
    /\ pc = "running"
    /\ calls[c].phase = "awaiting"
    /\ calls' = [calls EXCEPT ![c].phase = "done", ![c].outcome = outcome,
                              ![c].result = handleSendEmailResume(Self, outcome)]
    /\ UNCHANGED <<env, pc, exitCode, testMode, apiKey, fromEmail, toolHandlers, sgApiKey>>

\* the handler's promise has settled: the protocol layer answers the request
\* (the response, or an error for an exception) and the slot is free again
Reply(c) ==
    /\ calls[c].phase = "done"
    /\ calls' = [calls EXCEPT ![c] = IdleCall]
    /\ UNCHANGED <<env, pc, exitCode, testMode, apiKey, fromEmail, toolHandlers, sgApiKey>>

Next ==
    \/ \E mode \in BOOLEAN : Construct(mode)
    \/ Run
    \/ \E c \in Calls, r \in RequestValues : CallTool(c, r.name, r.arguments)
    \/ \E c \in Calls : Reply(c)
    \/ \E c \in Calls, outcome \in OutcomeValues : SendSettles(c, outcome)

Spec == Init /\ [][Next]_vars

-----------------------------------------------------------------------------
(* The server with several calls suspended at sgMail.send at once *)

\* the number of request slots of the concurrent specification
MaxConcurrent == 2

ConcCalls == 1 .. MaxConcurrent

\* a text-only request, an html request, one that fails validation, and one
\* for a tool the server does not have
ConcRequestValues ==
    {[name |-> "send_email",
      arguments |-> Obj([to |-> Str(ValidTo), subject |-> Str(<<"Hi">>),
                         text |-> Str(PlainText)])],
     [name |-> "send_email",
      arguments |-> Obj([to |-> Str(ValidTo), subject |-> Str(<<"Hi">>),
                         html |-> Str(MixedHtml)])],
     [name |-> "send_email",
      arguments |-> Obj([subject |-> Str(<<>>), text |-> Str(PlainText)])],
     [name |-> "list_emails",
      arguments |-> Obj([to |-> Str(ValidTo), subject |-> Str(<<"Hi">>),
                         text |-> Str(PlainText)])]}

\* a success with a message id, one without, a provider error response and a
\* failure that is no response
ConcOutcomeValues ==
    {Resolve(Obj([statusCode |-> Num(202),
                  headers |-> Obj([k \in {"x-message-id"} |-> Str(<<"test-message-id-123">>)])])),
     Resolve(Obj([statusCode |-> Num(200), headers |-> Obj(NoProps)])),
     Reject(ErrorObj(<<"SendGrid API Error">>,
                     [response |-> Obj([status |-> Num(400),
                                        body |-> MessageBody(Str(<<"Invalid recipient">>))])])),
     Reject(ErrorObj(<<"Network timeout">>, NoProps))}

InitConc ==
    /\ env \in EnvValues
    /\ pc = "start"
    /\ exitCode = -1
    /\ testMode = FALSE
    /\ apiKey = <<>>
    /\ fromEmail = <<>>
    /\ toolHandlers = {}
    /\ sgApiKey = <<>>
    /\ calls = [c \in ConcCalls |-> IdleCall]

\* requests arrive while earlier ones are suspended, and the sends settle in
\* any order
NextConc ==
    \/ \E mode \in BOOLEAN : Construct(mode)
    \/ Run
    \/ \E c \in ConcCalls, r \in ConcRequestValues : CallTool(c, r.name, r.arguments)
    \/ \E c \in ConcCalls : Reply(c)
    \/ \E c \in ConcCalls, outcome \in ConcOutcomeValues : SendSettles(c, outcome)

SpecConc == InitConc /\ [][NextConc]_vars

-----------------------------------------------------------------------------
(* The vocabulary of the properties *)

\* call c is a send_email call that reached handleSendEmail
Handled(c) == calls[c].phase # "idle" /\ calls[c].name = "send_email"

\* handleSendEmail has finished for call c
Finished(c) == Handled(c) /\ calls[c].phase = "done"

\* the message call c handed to sgMail.send, if it did
Sent(c) == Handled(c) /\ calls[c].sends > 0

Returned(c) == Finished(c) /\ calls[c].result.t = "return"
ResponseOf(c) == calls[c].result.value
TextOf(c) == ResponseOf(c).content[1].text
FlaggedError(r) == "isError" \in DOMAIN r /\ r.isError = TRUE

\* the three rules of the schema, read off the arguments
RecipientViolated(args) ==
    ~(Get(args, "to").t = "string" /\ IsEmail(Get(args, "to").s))
SubjectViolated(args) ==
    ~(Get(args, "subject").t = "string" /\ Get(args, "subject").s # <<>>)
ContentViolated(args) ==
    ~Truthy(Get(args, "text")) /\ ~Truthy(Get(args, "html"))
FailsValidation(args) ==
    RecipientViolated(args) \/ SubjectViolated(args) \/ ContentViolated(args)

-----------------------------------------------------------------------------
(* C1 *)

\* C1: a send_email call whose arguments violate a rule (recipient, subject,
\* content presence) ends at once with an isError response whose text is
\* "Validation error: " followed by the "path: message" of every violation
\* the schema reports, and nothing is handed to sgMail.send.
C1_ValidationFailureIsReported ==
    \A c \in Calls :
        (Handled(c) /\ FailsValidation(calls[c].args)) =>
            /\ calls[c].phase = "done"
            /\ calls[c].sends = 0
            /\ calls[c].msg = Undefined
            /\ calls[c].result.t = "return"
            /\ FlaggedError(ResponseOf(c))
            /\ EmailSchemaParse(calls[c].args).issues # <<>>
            /\ TextOf(c) = ValidationText(EmailSchemaParse(calls[c].args).issues)
            /\ TextOf(c)[1] = "Validation error: "
            /\ Len(TextOf(c)) >= 3

\* the spec's example: to valid, subject "", text given
C1_Witness ==
    \E c \in Calls :
        /\ Finished(c)
        /\ calls[c].args = Obj([to |-> Str(ValidTo), subject |-> Str(<<>>),
                                text |-> Str(PlainText)])
        /\ TextOf(c) = <<"Validation error: ", "subject", ": ", "Subject cannot be empty">>
        /\ calls[c].sends = 0

-----------------------------------------------------------------------------
(* C2 *)

\* C2: every message handed to sgMail.send has as `from` the sender read from
\* the environment at construction, whatever the arguments hold (a `from`
\* among them included), and the sender does not change once constructed.
C2_SenderIsConfigured ==
    /\ pc \in {"constructed", "running"} => fromEmail = EnvGet("SENDGRID_FROM_EMAIL")
    /\ \A c \in Calls :
          Sent(c) => /\ Has(calls[c].msg, "from")
                     /\ Get(calls[c].msg, "from") = Str(fromEmail)
                     /\ Get(calls[c].msg, "from") = Str(EnvGet("SENDGRID_FROM_EMAIL"))

\* a message went out for arguments that name another sender
C2_Witness ==
    \E c \in Calls :
        /\ Sent(c)
        /\ Get(calls[c].args, "from") = Str(SpoofedFrom)
        /\ Get(calls[c].msg, "from") = Str(SenderValue)

-----------------------------------------------------------------------------
(* C3 *)

\* the argument keys the tool's inputSchema allows
AllowedKeys == {"to", "subject", "text", "html"}
HasUnknownField(args) == args.t = "object" /\ ~(DOMAIN args.o \subseteq AllowedKeys)

\* C3: a send_email call whose arguments hold a field other than to, subject,
\* text and html is rejected: nothing is handed to sgMail.send and the
\* response is an error.
C3_UnknownFieldsRejected ==
    \A c \in Calls :
        (Handled(c) /\ HasUnknownField(calls[c].args)) =>
            /\ calls[c].sends = 0
            /\ calls[c].phase = "done"
            /\ calls[c].result.t = "return"
            /\ FlaggedError(ResponseOf(c))

-----------------------------------------------------------------------------
(* C4 *)

\* the paths of the rules the arguments violate, in the order recipient,
\* subject, content presence
ViolatedRules(args) ==
    (IF RecipientViolated(args) THEN <<"to">> ELSE <<>>)
        \o (IF SubjectViolated(args) THEN <<"subject">> ELSE <<>>)
        \o (IF ContentViolated(args) THEN <<"content">> ELSE <<>>)

RECURSIVE RulePaths(_)
\* the paths the issues carry, those of the three rules only
RulePaths(issues) ==
    IF issues = <<>> THEN <<>>
    ELSE (IF Head(issues).path \in {<<"to">>, <<"subject">>, <<"content">>}
          THEN Head(issues).path ELSE <<>>) \o RulePaths(Tail(issues))

\* C4: for the arguments object of every send_email call, EmailSchema reports
\* exactly one issue per violated rule, all in one failure, in the order
\* recipient, subject, content presence, for every combination of violated
\* rules, a missing required field included.
C4_OneIssuePerViolatedRule ==
    \A c \in Calls :
        (Handled(c) /\ calls[c].args.t = "object") =>
            RulePaths(EmailSchemaParse(calls[c].args).issues) = ViolatedRules(calls[c].args)

-----------------------------------------------------------------------------
(* C5 *)

\* sgMail.send resolved for call c with a numeric statusCode and an
\* x-message-id header holding a non-empty string
SucceededWithId(c) ==
    /\ Finished(c) /\ calls[c].sends > 0
    /\ calls[c].outcome.kind = "resolve"
    /\ Get(calls[c].outcome.response, "statusCode").t = "number"
    /\ Truthy(Get(Get(calls[c].outcome.response, "headers"), "x-message-id"))

\* C5: when sgMail.send resolves with status code s and message id m, the
\* response has no isError and its text is exactly
\* "Email sent successfully! Status: <s>, Message ID: <m>".
C5_SuccessText ==
    \A c \in Calls :
        SucceededWithId(c) =>
            /\ calls[c].result.t = "return"
            /\ DOMAIN ResponseOf(c) = {"content"}
            /\ Len(ResponseOf(c).content) = 1
            /\ ResponseOf(c).content[1].type = "text"
            /\ TextOf(c) =
                 <<"Email sent successfully! Status: ",
                   ToString(Get(calls[c].outcome.response, "statusCode").n),
                   ", Message ID: ">>
                 \o Get(Get(calls[c].outcome.response, "headers"), "x-message-id").s

\* the spec's example: status 202, x-message-id test-message-id-123
C5_Witness ==
    \E c \in Calls :
        /\ SucceededWithId(c)
        /\ TextOf(c) = <<"Email sent successfully! Status: ", "202",
                         ", Message ID: ", "test-message-id-123">>

-----------------------------------------------------------------------------
(* C6 *)

\* sgMail.send failed for call c with an error whose response has a body
\* whose errors list starts with an element holding a string message
FailedWithMessage(c) ==
    /\ Finished(c) /\ calls[c].sends > 0
    /\ calls[c].outcome.kind = "reject"
    /\ Get(calls[c].outcome.error, "response").t = "object"
    /\ Get(Get(calls[c].outcome.error, "response"), "body").t = "object"
    /\ Get(Get(Get(calls[c].outcome.error, "response"), "body"), "errors").t = "array"
    /\ Len(Get(Get(Get(calls[c].outcome.error, "response"), "body"), "errors").items) > 0
    /\ Get(Get(Get(Get(calls[c].outcome.error, "response"), "body"), "errors").items[1],
           "message").t = "string"

FirstMessage(c) ==
    Get(Get(Get(Get(calls[c].outcome.error, "response"), "body"), "errors").items[1],
        "message").s
StatusOf(c) == Get(Get(calls[c].outcome.error, "response"), "status")

\* C6: when sgMail.send fails with a response of HTTP status s whose body's
\* first error has message m, the response is an error whose text holds s and
\* m; with no status, the text holds "unknown" where the status would be.
C6_ProviderErrorText ==
    \A c \in Calls :
        FailedWithMessage(c) =>
            /\ calls[c].result.t = "return"
            /\ FlaggedError(ResponseOf(c))
            /\ Contains(TextOf(c), FirstMessage(c))
            /\ StatusOf(c).t = "number" =>
                  Contains(TextOf(c), <<ToString(StatusOf(c).n), ")">>)
            /\ StatusOf(c).t = "undefined" =>
                  Contains(TextOf(c), <<"unknown", ")">>)

\* the spec's example: status 400, errors [{message: "Invalid recipient"}]
C6_Witness ==
    \E c \in Calls :
        /\ FailedWithMessage(c)
        /\ StatusOf(c) = Num(400)
        /\ TextOf(c) = <<"SendGrid API error (status: ", "400", ")", ": ", "Invalid recipient">>

-----------------------------------------------------------------------------
(* C7 *)

\* a content list of one text item, and isError, when there, true
WellFormed(r) ==
    /\ DOMAIN r \in {{"content"}, {"content", "isError"}}
    /\ Len(r.content) = 1
    /\ DOMAIN r.content[1] = {"type", "text"}
    /\ r.content[1].type = "text"
    /\ "isError" \in DOMAIN r => r.isError = TRUE

\* the send of call c came back with a receipt
Delivered(c) ==
    /\ calls[c].sends > 0
    /\ calls[c].outcome.kind = "resolve"
    /\ Get(calls[c].outcome.response, "headers").t = "object"

\* C7: every send_email call that reached handleSendEmail and finished has
\* returned a well-formed response, with isError on every path but the
\* delivered one; no exception leaves handleSendEmail.
C7_NoExceptionEscapes ==
    \A c \in Calls :
        Finished(c) =>
            /\ calls[c].result.t = "return"
            /\ WellFormed(ResponseOf(c))
            /\ FlaggedError(ResponseOf(c)) <=> ~Delivered(c)

\* the error body whose first error is null, where `in` throws inside the
\* handler's own try
C7_Witness ==
    \E c \in Calls :
        /\ Finished(c)
        /\ calls[c].sends > 0
        /\ calls[c].outcome.kind = "reject"
        /\ Get(Get(calls[c].outcome.error, "response"), "body") = Obj([errors |-> Arr(<<Null>>)])
        /\ FlaggedError(ResponseOf(c))

-----------------------------------------------------------------------------
(* C8 *)

KeyMissing == EnvGet("SENDGRID_API_KEY") = <<>>
SenderMissing == EnvGet("SENDGRID_FROM_EMAIL") = <<>>

\* C8: outside test mode a missing or empty key or sender ends the process
\* with status 1 before send_email is registered and before any call is
\* served, so every call served outside test mode runs with a non-empty
\* apiKey and fromEmail; in test mode construction completes regardless.
C8_StartupChecks ==
    /\ (pc # "start" /\ ~testMode /\ (KeyMissing \/ SenderMissing)) => pc = "exited"
    /\ pc = "exited" =>
          /\ exitCode = 1
          /\ ~testMode
          /\ toolHandlers = {}
          /\ \A c \in Calls : calls[c].phase = "idle"
    /\ (pc # "start" /\ testMode) =>
          /\ pc \in {"constructed", "running"}
          /\ "send_email" \in toolHandlers
    /\ \A c \in Calls :
          (calls[c].phase # "idle" /\ ~testMode) => (apiKey # <<>> /\ fromEmail # <<>>)

\* the key is set and the sender is empty: the second check ends the process
C8_Witness ==
    /\ pc = "exited"
    /\ exitCode = 1
    /\ ~KeyMissing
    /\ SenderMissing

-----------------------------------------------------------------------------
(* C9 *)

\* the keys of the runs call c's run is compared with
OtherApiKeys == {<<>>, ApiKeyValue, <<"SG.", "key-2">>}

\* what handleSendEmail yields for call c's arguments and outcome in a run
\* whose apiKey is k and that is otherwise this one
ResultWithKey(c, k) ==
    LET other == [Self EXCEPT !.apiKey = k]
    IN  IF calls[c].sends = 0
        THEN handleSendEmailStart(other, Request(calls[c].name, calls[c].args)).result
        ELSE handleSendEmailResume(other, calls[c].outcome)

\* the text of a provider error: the frame, the status, the first message
ProviderErrorShape(c) ==
    \/ TextOf(c) = <<"SendGrid API error (status: ">>
                      \o Interpolate(ErrorStatus(calls[c].outcome.error)) \o <<")">>
    \/ /\ Get(Get(calls[c].outcome.error, "response"), "body").t = "object"
       /\ Get(Get(Get(calls[c].outcome.error, "response"), "body"), "errors").t = "array"
       /\ Len(Get(Get(Get(calls[c].outcome.error, "response"), "body"), "errors").items) > 0
       /\ TextOf(c) =
             <<"SendGrid API error (status: ">>
                 \o Interpolate(ErrorStatus(calls[c].outcome.error)) \o <<")", ": ">>
                 \o Interpolate(Get(Get(Get(Get(calls[c].outcome.error, "response"), "body"),
                                        "errors").items[1], "message"))

\* C9: the response of every finished send_email call is the one the same
\* arguments and the same provider outcome yield under any other apiKey; its
\* text holds no piece of the key, and for an error that carries a response
\* it holds the status and the first message only.
C9_ResponseIndependentOfApiKey ==
    \A c \in Calls :
        Finished(c) =>
            /\ \A k \in OtherApiKeys : calls[c].result = ResultWithKey(c, k)
            /\ Returned(c) =>
                  /\ \A i \in 1 .. Len(TextOf(c)) :
                        \A k \in OtherApiKeys \cup {apiKey} :
                            \A j \in 1 .. Len(k) : TextOf(c)[i] # k[j]
                  /\ (calls[c].sends > 0 /\ calls[c].outcome.kind = "reject"
                        /\ Has(calls[c].outcome.error, "response")) => ProviderErrorShape(c)

\* a failure that is no provider response, in a run that holds a key
C9_Witness ==
    \E c \in Calls :
        /\ Finished(c)
        /\ apiKey = ApiKeyValue
        /\ calls[c].outcome = Reject(ErrorObj(<<"Network timeout">>, NoProps))
        /\ TextOf(c) = <<"Failed to send email: ", "Network timeout">>

-----------------------------------------------------------------------------
(* C10 *)

\* C10: the text body of every message handed to sgMail.send is the caller's
\* text, piece for piece, and a non-empty text is always handed over,
\* whatever the html is and whatever the sanitizer removes from it.
C10_TextUntouched ==
    \A c \in Calls :
        Sent(c) =>
            /\ Has(calls[c].msg, "text") => Get(calls[c].msg, "text") = Get(calls[c].args, "text")
            /\ Truthy(Get(calls[c].args, "text")) => Has(calls[c].msg, "text")

\* a text that holds a script element went out as it came, beside an html
\* the sanitizer cut
C10_Witness ==
    \E c \in Calls :
        /\ Sent(c)
        /\ Get(calls[c].args, "text") = Str(PlainText)
        /\ Get(calls[c].msg, "text") = Str(PlainText)
        /\ Get(calls[c].args, "html") = Str(MixedHtml)
        /\ Get(calls[c].msg, "html") # Get(calls[c].args, "html")

-----------------------------------------------------------------------------
(* C11 *)

\* the pieces of html that lie in a script element: its tags and all between
InScriptElement(html, i) ==
    \E j \in 1 .. i :
        /\ html[j] = "<script>"
        /\ \A k \in (j + 1) .. (i - 1) : html[k] # "</script>"

RECURSIVE Outside(_, _)
\* the pieces of html from position i on that lie in no script element, in order
Outside(html, i) ==
    IF i > Len(html) THEN <<>>
    ELSE (IF InScriptElement(html, i) THEN <<>> ELSE <<html[i]>>) \o Outside(html, i + 1)

HasScript(html) == \E i \in 1 .. Len(html) : html[i] = "<script>"

\* C11: for every html that holds a script element, sanitizeHtml returns the
\* html without the script's tags and without anything that stood between
\* them, and with every piece outside the element kept in its order; and no
\* html body handed to sgMail.send holds a script tag.
C11_ScriptRemoved ==
    \A c \in Calls :
        /\ (Sent(c) /\ Has(calls[c].args, "html") /\ HasScript(Get(calls[c].args, "html").s)) =>
              LET html == Get(calls[c].args, "html").s
                  clean == sanitizeHtml(html)
              IN  /\ \A i \in 1 .. Len(clean) : clean[i] \notin {"<script>", "</script>"}
                  /\ \A i \in 1 .. Len(html) :
                        InScriptElement(html, i) =>
                            \A j \in 1 .. Len(clean) : clean[j] # html[i]
                  /\ clean = Outside(html, 1)
                  /\ Has(calls[c].msg, "html") => Get(calls[c].msg, "html") = Str(clean)
        /\ (Sent(c) /\ Has(calls[c].msg, "html")) =>
              \A i \in 1 .. Len(Get(calls[c].msg, "html").s) :
                  Get(calls[c].msg, "html").s[i] \notin {"<script>", "</script>"}

\* the test's html went out with its two paragraphs and without the script
C11_Witness ==
    \E c \in Calls :
        /\ Sent(c)
        /\ Get(calls[c].args, "html") = Str(MixedHtml)
        /\ Get(calls[c].msg, "html") = Str(<<"<p>", "Hello", "</p>", "<p>", "World", "</p>">>)

-----------------------------------------------------------------------------
(* C12 *)

\* what a call yields, from its own request and the outcome of its own send
OwnResult(name, args, sends, outcome) ==
    IF name # "send_email"
    THEN Throw(ErrorObj(<<"Unknown tool: ", name>>, NoProps))
    ELSE IF sends = 0 THEN handleSendEmailStart(Self, Request(name, args)).result
    ELSE handleSendEmailResume(Self, outcome)

\* every call is answered, and its message built, from its own request and
\* its own outcome, whatever the other calls hold
AnsweredFromOwn ==
    \A c \in ConcCalls :
        /\ calls[c].phase = "awaiting" =>
              /\ calls[c].sends = 1
              /\ calls[c].msg = handleSendEmailStart(Self, Request(calls[c].name, calls[c].args)).msg
        /\ calls[c].phase = "done" =>
              calls[c].result =
                  OwnResult(calls[c].name, calls[c].args, calls[c].sends, calls[c].outcome)
        /\ \A d \in ConcCalls :
              (calls[c].phase = "done" /\ calls[d].phase = "done"
                  /\ calls[c].name = calls[d].name /\ calls[c].args = calls[d].args
                  /\ calls[c].outcome = calls[d].outcome) =>
                      calls[c].result = calls[d].result

\* a step of one call leaves every other call as it was
OneCallPerStep ==
    \A c, d \in ConcCalls : (c # d /\ calls[c]' # calls[c]) => calls[d]' = calls[d]

\* after the constructor the configuration and the registry are not written
ConfigurationKept ==
    pc \in {"constructed", "running"} =>
        /\ apiKey' = apiKey
        /\ fromEmail' = fromEmail
        /\ toolHandlers' = toolHandlers
        /\ sgApiKey' = sgApiKey

\* C12: with several send_email calls suspended at sgMail.send at once, and
\* under every order of arrival and settling, each call's message and
\* response are those its own arguments and the outcome of its own send
\* give; no step of one call changes another call; and apiKey, fromEmail and
\* the handler registry are never written once the constructor has returned.
C12_CallsIndependent ==
    /\ []AnsweredFromOwn
    /\ [][OneCallPerStep /\ ConfigurationKept]_vars

\* a call answered with its own provider error while the other, with other
\* arguments, is still suspended at its send
C12_Witness ==
    \E c, d \in ConcCalls :
        /\ c # d
        /\ calls[c].phase = "done" /\ calls[c].sends = 1
        /\ calls[c].outcome.kind = "reject"
        /\ TextOf(c) = <<"SendGrid API error (status: ", "400", ")", ": ", "Invalid recipient">>
        /\ calls[d].phase = "awaiting"
        /\ calls[d].args # calls[c].args
        /\ Has(calls[d].msg, "html")

-----------------------------------------------------------------------------
(* C13 *)

\* sgMail.send resolved for call c with a response that has its headers
Resolved(c) ==
    /\ Finished(c)
    /\ calls[c].sends > 0
    /\ calls[c].outcome.kind = "resolve"
    /\ Get(calls[c].outcome.response, "headers").t = "object"

HeadersOf(c) == Get(calls[c].outcome.response, "headers")

\* C13: when sgMail.send resolves, the call returns the success text with
\* the response's statusCode and with the value of its x-message-id header,
\* and with "unknown" in the header's place when the response has no such
\* header: the text then ends in "Message ID: unknown".
C13_ReceiptFromResponse ==
    \A c \in Calls :
        Resolved(c) =>
            /\ Returned(c)
            /\ ~FlaggedError(ResponseOf(c))
            /\ TextOf(c) =
                  <<"Email sent successfully! Status: ",
                    ToString(Get(calls[c].outcome.response, "statusCode").n),
                    ", Message ID: ">>
                  \o (IF Has(HeadersOf(c), "x-message-id")
                      THEN Get(HeadersOf(c), "x-message-id").s
                      ELSE <<"unknown">>)

\* a response with status 200 and no x-message-id header was reported
C13_Witness ==
    \E c \in Calls :
        /\ Resolved(c)
        /\ ~Has(HeadersOf(c), "x-message-id")
        /\ TextOf(c) = <<"Email sent successfully! Status: ", "200", ", Message ID: ", "unknown">>

-----------------------------------------------------------------------------
(* C14 *)

\* a body that is absent or null, no object, without `errors`, with `errors`
\* that is no list or an empty one, or whose first element is null, no
\* object, or without `message`
MalformedBody(b) ==
    \/ b.t \in {"undefined", "null"}
    \/ b.t # "object"
    \/ ~Has(b, "errors")
    \/ Get(b, "errors").t # "array"
    \/ Get(b, "errors").items = <<>>
    \/ Get(b, "errors").items[1].t = "null"
    \/ Get(b, "errors").items[1].t # "object"
    \/ ~Has(Get(b, "errors").items[1], "message")

\* sgMail.send of call c rejected with an error that carries `response`
FailedWithResponse(c) ==
    /\ Finished(c)
    /\ calls[c].sends > 0
    /\ calls[c].outcome.kind = "reject"
    /\ Has(calls[c].outcome.error, "response")

BodyOf(c) == Get(Get(calls[c].outcome.error, "response"), "body")

\* C14: when the error of a failed send carries `response` and the body of
\* that response is malformed, handleSendEmail throws nothing and returns
\* isError: true with the text "SendGrid API error (status: S)" and nothing
\* after it, S being the response's status, or "unknown" without one.
C14_MalformedBodyIsGeneric ==
    \A c \in Calls :
        (FailedWithResponse(c) /\ MalformedBody(BodyOf(c))) =>
            /\ Returned(c)
            /\ FlaggedError(ResponseOf(c))
            /\ Len(ResponseOf(c).content) = 1
            /\ TextOf(c) =
                  <<"SendGrid API error (status: ",
                    IF Has(Get(calls[c].outcome.error, "response"), "status")
                    THEN ToString(Get(Get(calls[c].outcome.error, "response"), "status").n)
                    ELSE "unknown",
                    ")">>

\* a body whose list of errors starts with null gave the generic text
C14_Witness ==
    \E c \in Calls :
        /\ FailedWithResponse(c)
        /\ BodyOf(c) = Obj([errors |-> Arr(<<Null>>)])
        /\ FlaggedError(ResponseOf(c))
        /\ TextOf(c) = <<"SendGrid API error (status: ", "400", ")">>

-----------------------------------------------------------------------------
(* C15 *)

\* the message has a body that is a non-empty string
HasBody(msg) ==
    \/ Has(msg, "text") /\ Truthy(Get(msg, "text"))
    \/ Has(msg, "html") /\ Truthy(Get(msg, "html"))

\* C15: every message handed to sgMail.send carries a non-empty text or a
\* non-empty html, also when the only content of the request is an html
\* that the sanitizer reduces to the empty string.
C15_MessageHasBody ==
    \A c \in Calls : Sent(c) => HasBody(calls[c].msg)

-----------------------------------------------------------------------------
(* C16 *)

\* the arguments are an object that meets every rule of the schema
PassesValidation(args) ==
    /\ args.t = "object"
    /\ ~FailsValidation(args)
    /\ Get(args, "text").t \in {"undefined", "string"}
    /\ Get(args, "html").t \in {"undefined", "string"}

\* C16: a call invokes sgMail.send at most once; a send_email call invokes
\* it once if its arguments pass validation and not at all if they do not;
\* a call whose send failed has sent once and is answered, not sent again;
\* and a call for another tool throws "Unknown tool: <name>" and never
\* invokes sgMail.send.
C16_SendAtMostOnce ==
    \A c \in Calls :
        /\ calls[c].sends <= 1
        /\ Handled(c) => (calls[c].sends = 1 <=> PassesValidation(calls[c].args))
        /\ (Finished(c) /\ calls[c].sends > 0 /\ calls[c].outcome.kind = "reject") =>
              calls[c].sends = 1 /\ Returned(c) /\ FlaggedError(ResponseOf(c))
        /\ (calls[c].phase # "idle" /\ calls[c].name # "send_email") =>
              /\ calls[c].phase = "done"
              /\ calls[c].sends = 0
              /\ calls[c].msg = Undefined
              /\ calls[c].result.t = "throw"
              /\ Get(calls[c].result.error, "message") = Str(<<"Unknown tool: ", calls[c].name>>)

\* a call whose single send the provider rejected has been answered
C16_Witness ==
    \E c \in Calls :
        /\ Finished(c)
        /\ PassesValidation(calls[c].args)
        /\ calls[c].sends = 1
        /\ calls[c].outcome.kind = "reject"
        /\ FlaggedError(ResponseOf(c))

====
